---- MODULE Spec2Model ----
(***************************************************************************)
(* Colorization state of one document (colorization.ts): the range          *)
(* transformer (fixRange and its helpers), the versioned edit log, the      *)
(* per-pass token ranges, the decorations ("render handles") and the task   *)
(* chain of ColorizationSettings that serialises the rendering work.        *)
(***************************************************************************)
EXTENDS Integers, Sequences, FiniteSets, TLC

\* ------------------------------------------------------------------ bounds

\* Number of token kinds the model carries (TokenKind.Count is 36 in the code).
TokenKindCount == 2
\* Greatest edit version the document reaches.
MaxVersion == 2
\* Greatest number of tasks pending in the chain of ColorizationSettings.
MaxQueue == 2
\* Greatest line and greatest character of the positions given to fixRange.
MaxLine == 2
MaxCharacter == 2
\* Greatest length of the text of a change given to fixRange.
MaxText == 2

TokenKinds == 0 .. (TokenKindCount - 1)

\* ------------------------------------------------ positions, ranges, text

Position(line, character) == [line |-> line, character |-> character]

isBefore(a, b) ==
    \/ a.line < b.line
    \/ (a.line = b.line /\ a.character < b.character)

\* Mutant: a position is not at or before itself.
isBeforeOrEqual_Strict(a, b) == isBefore(a, b)

isBeforeOrEqual(a, b) == ~isBefore(b, a)

\* Mutant: a position is not at or after itself.
isAfterOrEqual_Strict(a, b) == isBefore(b, a)

isAfterOrEqual(a, b) == ~isBefore(a, b)

translate(pos, lineDelta, characterDelta) ==
    Position(pos.line + lineDelta, pos.character + characterDelta)

\* new vscode.Range(start, end): the constructor orders its two positions.
Range(start, end) ==
    IF isBefore(end, start)
        THEN [start |-> end, end |-> start]
        ELSE [start |-> start, end |-> end]

\* new vscode.Range(startLine, startCharacter, endLine, endCharacter)
Range4(startLine, startCharacter, endLine, endCharacter) ==
    Range(Position(startLine, startCharacter), Position(endLine, endCharacter))

\* The null returned by fixRange for a consumed range.
Null == [null |-> TRUE]

\* A text is a sequence of characters; "\n" is the line break.
RECURSIVE split(_)
\* text.split("\n"): the sequence of the lines of text
split(text) ==
    IF \A i \in 1 .. Len(text) : text[i] # "\n"
        THEN <<text>>
        ELSE LET i == CHOOSE j \in 1 .. Len(text) :
                          /\ text[j] = "\n"
                          /\ \A k \in 1 .. (j - 1) : text[k] # "\n"
             IN <<SubSeq(text, 1, i - 1)>> \o split(SubSeq(text, i + 1, Len(text)))

textToRange(text, startPosition) ==
    LET parts == split(text)
        addedLines == Len(parts) - 1
        newStartLine == startPosition.line
        newStartCharacter == startPosition.character
        newEndLine == newStartLine + addedLines
        lastLength == Len(parts[Len(parts)])
        newEndCharacter == IF newStartLine = newEndLine
                               THEN lastLength + newStartCharacter
                               ELSE lastLength
    IN Range4(newStartLine, newStartCharacter, newEndLine, newEndCharacter)

\* Mutant: the character delta of the removal is applied on every line.
shiftRangeAfterRemove_DeltaOnEveryLine(range, removeStartPosition, removeEndPosition) ==
    LET lineDelta == removeStartPosition.line - removeEndPosition.line
        characterDelta == removeStartPosition.character - removeEndPosition.character
    IN Range(translate(range.start, lineDelta, characterDelta),
             translate(range.end, lineDelta, characterDelta))

shiftRangeAfterRemove(range, removeStartPosition, removeEndPosition) ==
    LET lineDelta == removeStartPosition.line - removeEndPosition.line
        startCharacterDelta ==
            IF range.start.line = removeEndPosition.line
                THEN removeStartPosition.character - removeEndPosition.character
                ELSE 0
        endCharacterDelta ==
            IF range.start.line = removeEndPosition.line
               /\ range.end.line = removeEndPosition.line
                THEN startCharacterDelta
                ELSE 0
        newStart == translate(range.start, lineDelta, startCharacterDelta)
        newEnd == translate(range.end, lineDelta, endCharacterDelta)
    IN Range(newStart, newEnd)

\* Mutant: the end of the range keeps its character.
shiftRangeAfterInsert_EndNotShifted(range, insertStartPosition, insertEndPosition) ==
    LET addedLines == insertEndPosition.line - insertStartPosition.line
        newStartLine == range.start.line + addedLines
        newEndLine == range.end.line + addedLines
        endOffsetLength ==
            IF insertEndPosition.line = insertStartPosition.line
                THEN insertEndPosition.character - insertStartPosition.character
                ELSE insertEndPosition.character
        newStartCharacter ==
            IF insertEndPosition.line = newStartLine
                THEN range.start.character + endOffsetLength
                ELSE range.start.character
    IN Range4(newStartLine, newStartCharacter, newEndLine, range.end.character)

shiftRangeAfterInsert(range, insertStartPosition, insertEndPosition) ==
    LET addedLines == insertEndPosition.line - insertStartPosition.line
        newStartLine == range.start.line + addedLines
        newEndLine == range.end.line + addedLines
        endOffsetLength ==
            IF insertEndPosition.line = insertStartPosition.line
                THEN insertEndPosition.character - insertStartPosition.character
                ELSE insertEndPosition.character
        newStartCharacter ==
            IF insertEndPosition.line = newStartLine
                THEN range.start.character + endOffsetLength
                ELSE range.start.character
        newEndCharacter ==
            IF insertEndPosition.line = newStartLine /\ insertEndPosition.line = newEndLine
                THEN range.end.character + endOffsetLength
                ELSE range.end.character
    IN Range4(newStartLine, newStartCharacter, newEndLine, newEndCharacter)

\* Mutant: an edit that starts inside the range and ends on its last line
\* leaves the range ending where the inserted text ends.
fixRange_TailDropped(range, removeInsertStartPosition, removeEndPosition, insertEndPosition) ==
    IF isAfterOrEqual(removeInsertStartPosition, range.end)
    THEN range
    ELSE IF isBeforeOrEqual(removeInsertStartPosition, range.start)
    THEN IF isAfterOrEqual(removeEndPosition, range.end)
         THEN Null
         ELSE LET newRange == IF isAfterOrEqual(removeEndPosition, range.start)
                                  THEN Range(removeEndPosition, range.end)
                                  ELSE range
                  removed == shiftRangeAfterRemove(newRange, removeInsertStartPosition,
                                                   removeEndPosition)
              IN shiftRangeAfterInsert(removed, removeInsertStartPosition,
                                       insertEndPosition)
    ELSE IF isAfterOrEqual(removeEndPosition, range.end)
            \/ removeEndPosition.line = range.end.line
    THEN Range4(range.start.line, range.start.character,
                insertEndPosition.line, insertEndPosition.character)
    ELSE LET removedLines == removeEndPosition.line - removeInsertStartPosition.line
             addedLines == insertEndPosition.line - removeInsertStartPosition.line
             deltaLines == addedLines - removedLines
         IN Range4(range.start.line, range.start.character,
                   range.end.line + deltaLines, range.end.character)

fixRange(range, removeInsertStartPosition, removeEndPosition, insertEndPosition) ==
    IF isAfterOrEqual(removeInsertStartPosition, range.end)
    THEN range
    ELSE IF isBeforeOrEqual(removeInsertStartPosition, range.start)
    THEN IF isAfterOrEqual(removeEndPosition, range.end)
         THEN Null
         ELSE LET newRange == IF isAfterOrEqual(removeEndPosition, range.start)
                                  THEN Range(removeEndPosition, range.end)
                                  ELSE range
                  removed == shiftRangeAfterRemove(newRange, removeInsertStartPosition,
                                                   removeEndPosition)
              IN shiftRangeAfterInsert(removed, removeInsertStartPosition,
                                       insertEndPosition)
    ELSE IF isAfterOrEqual(removeEndPosition, range.end)
    THEN Range4(range.start.line, range.start.character,
                insertEndPosition.line, insertEndPosition.character)
    ELSE IF removeEndPosition.line = range.end.line
    THEN Range4(range.start.line, range.start.character, insertEndPosition.line,
                insertEndPosition.character
                    + (range.end.character - removeEndPosition.character))
    ELSE LET removedLines == removeEndPosition.line - removeInsertStartPosition.line
             addedLines == insertEndPosition.line - removeInsertStartPosition.line
             deltaLines == addedLines - removedLines
         IN Range4(range.start.line, range.start.character,
                   range.end.line + deltaLines, range.end.character)

\* Mutant: the ranges a change leaves are collected in reverse.
RECURSIVE fixRangesOneChange_Reversed(_, _)
fixRangesOneChange_Reversed(ranges, change) ==
    IF ranges = <<>>
        THEN <<>>
        ELSE LET insertRange == textToRange(change.text, change.range.start)
                 newRange == fixRange(Head(ranges), change.range.start,
                                      change.range.end, insertRange.end)
                 rest == fixRangesOneChange_Reversed(Tail(ranges), change)
             IN IF newRange # Null THEN rest \o <<newRange>> ELSE rest

\* One pass of the inner loop of fixRanges: every range through one change,
\* the ranges fixRange returns null for left out.
RECURSIVE fixRangesOneChange(_, _)
fixRangesOneChange(ranges, change) ==
    IF ranges = <<>>
        THEN <<>>
        ELSE LET insertRange == textToRange(change.text, change.range.start)
                 newRange == fixRange(Head(ranges), change.range.start,
                                      change.range.end, insertRange.end)
                 rest == fixRangesOneChange(Tail(ranges), change)
             IN IF newRange # Null THEN <<newRange>> \o rest ELSE rest

RECURSIVE fixRangesLoop(_, _)
fixRangesLoop(ranges, changes) ==
    IF changes = <<>>
        THEN ranges
        ELSE fixRangesLoop(fixRangesOneChange(ranges, Head(changes)), Tail(changes))

\* An array the code never assigned (undefined) is the empty sequence here:
\* fixRanges and refreshInner treat the two alike.
fixRanges(originalRanges, changes) ==
    IF Len(originalRanges) > 0
        THEN fixRangesLoop(originalRanges, changes)
        ELSE originalRanges


\* ------------------------------------------------------------ environment

\* The editors of the window. Editor 1 shows this document, editor 2 another.
Editors == {1, 2}

\* Uri objects: 1 and 2 are two objects of the same value (this document's),
\* 3 is the uri of the other document.
DocumentUri(e) == IF e = 1 THEN 1 ELSE 3

UriToString(u) == IF u \in {1, 2} THEN "file:///a.cpp" ELSE "file:///b.cpp"

ThisUriString == "file:///a.cpp"

\* A ThemeStyle; a field the theme does not give is the empty string.
ThemeStyle(foreground, background, fontStyle) ==
    [foreground |-> foreground, background |-> background, fontStyle |-> fontStyle]

NoStyle == ThemeStyle("", "", "")

\* The style maps a finished reload may leave (updateStyles).
LoadedThemes ==
    { [k \in TokenKinds |-> ThemeStyle("#d4d4d4", "", "")],
      [k \in TokenKinds |-> IF k = 0 THEN NoStyle ELSE ThemeStyle("", "", "italic")] }

\* The ranges a classification pass may send, and the edits of the document.
RangeA == Range4(0, 2, 0, 4)
RangeB == Range4(1, 0, 1, 3)
RangeC == Range4(0, 1, 2, 0)

SyntacticResults ==
    { [k \in TokenKinds |-> <<>>],
      [k \in TokenKinds |-> IF k = 0 THEN <<RangeA, RangeB>> ELSE <<>>] }

\* A semantic result: the ranges of each kind and the inactive regions.
SemanticResults ==
    { [ranges |-> [k \in TokenKinds |-> <<>>], inactive |-> <<>>],
      [ranges |-> [k \in TokenKinds |-> IF k = 0 THEN <<RangeC>> ELSE <<RangeB>>],
       inactive |-> <<RangeC>>] }

Change(range, text) == [range |-> range, text |-> text]

\* The edit that takes the document to the given version: a character typed
\* at the start of line 0 (odd versions), or the first four characters of
\* line 0 deleted and then a character and a line break typed there (even).
DocumentChanges(version) ==
    IF version % 2 = 1
        THEN { <<Change(Range4(0, 0, 0, 0), <<"a">>)>> }
        ELSE { <<Change(Range4(0, 0, 0, 4), <<>>),
                 Change(Range4(0, 0, 0, 0), <<"a", "\n">>)>> }

\* -------------------------------------------------------------- the state

VARIABLES
    versionedEdits, syntacticRanges, semanticRanges, inactiveRanges,
    currentSyntacticVersion, lastReceivedSyntacticVersion,
    currentSemanticVersion, lastReceivedSemanticVersion,
    decorations, inactiveDecoration,
    liveDecorations,      \* the decoration types created and not yet disposed
    themeStyleMap,        \* the style map of the document's language
    pendingTask,          \* the chain of tasks of ColorizationSettings, oldest first
    loading,              \* the reload task at the head has started and is suspended
    enhancedColorization, intelliSenseEngine, dimInactiveRegions,
    visibleTextEditors,
    editVersion,          \* the version of the document's latest edit
    closed,               \* dispose() has been called: the document is closed
    shown,                \* the ranges each editor shows for each decoration type
    trace                 \* the calls the last handler made, in order

vars == << versionedEdits, syntacticRanges, semanticRanges, inactiveRanges,
           currentSyntacticVersion, lastReceivedSyntacticVersion,
           currentSemanticVersion, lastReceivedSemanticVersion,
           decorations, inactiveDecoration, liveDecorations, themeStyleMap,
           pendingTask, loading, enhancedColorization, intelliSenseEngine,
           dimInactiveRegions, visibleTextEditors, editVersion, closed, shown,
           trace >>

\* The fields of the ColorizationState object, as one value.
this ==
    [ versionedEdits |-> versionedEdits,
      syntacticRanges |-> syntacticRanges,
      semanticRanges |-> semanticRanges,
      inactiveRanges |-> inactiveRanges,
      currentSyntacticVersion |-> currentSyntacticVersion,
      lastReceivedSyntacticVersion |-> lastReceivedSyntacticVersion,
      currentSemanticVersion |-> currentSemanticVersion,
      lastReceivedSemanticVersion |-> lastReceivedSemanticVersion,
      decorations |-> decorations,
      inactiveDecoration |-> inactiveDecoration,
      liveDecorations |-> liveDecorations ]

\* What new CppSettings(uri), the style maps and the window give when read.
settings ==
    [ enhancedColorization |-> enhancedColorization,
      intelliSenseEngine |-> intelliSenseEngine,
      dimInactiveRegions |-> dimInactiveRegions,
      themeStyleMap |-> themeStyleMap,
      visibleTextEditors |-> visibleTextEditors ]

\* ---------------------------------------------------------- decorations

NoDecoration == 0

\* Identities of decoration types; one never denotes two live decorations.
Decorations == 1 .. (2 * (TokenKindCount + 1))

\* vscode.window.createTextEditorDecorationType: a decoration type that is
\* none of the live ones.
createTextEditorDecorationType(live) ==
    CHOOSE d \in Decorations \ live : \A g \in Decorations \ live : d <= g

Call(op, decoration, editor, ranges) ==
    [op |-> op, decoration |-> decoration, editor |-> editor, ranges |-> ranges]

createDecorationFromThemeStyle(themeStyle, live) ==
    IF themeStyle.foreground # "" \/ themeStyle.background # "" \/ themeStyle.fontStyle # ""
        THEN createTextEditorDecorationType(live)
        ELSE NoDecoration

\* Mutant: the loop runs from kind 0 up to kind i - 1.
RECURSIVE createDecorationsFrom_Increasing(_, _, _)
createDecorationsFrom_Increasing(i, self, env) ==
    IF i = 0
        THEN self
        ELSE LET before == createDecorationsFrom_Increasing(i - 1, self, env)
                 d == createDecorationFromThemeStyle(env.themeStyleMap[i - 1],
                                                     before.liveDecorations)
             IN [before EXCEPT
                    !.decorations[i - 1] = d,
                    !.liveDecorations = IF d = NoDecoration THEN @ ELSE @ \cup {d},
                    !.calls = IF d = NoDecoration
                                  THEN @
                                  ELSE Append(@, Call("create", d, 0, <<>>))]

\* The loop of createColorizationDecorations, from kind i - 1 down to kind 0.
RECURSIVE createDecorationsFrom(_, _, _)
createDecorationsFrom(i, self, env) ==
    IF i = 0
        THEN self
        ELSE LET d == createDecorationFromThemeStyle(env.themeStyleMap[i - 1],
                                                     self.liveDecorations)
                 next == [self EXCEPT
                            !.decorations[i - 1] = d,
                            !.liveDecorations = IF d = NoDecoration THEN @ ELSE @ \cup {d},
                            !.calls = IF d = NoDecoration
                                          THEN @
                                          ELSE Append(@, Call("create", d, 0, <<>>))]
             IN createDecorationsFrom(i - 1, next, env)

\* Mutant: the decorations of the token kinds are created whatever the settings.
createColorizationDecorations_WhateverTheSettings(self, env) ==
    LET s1 == createDecorationsFrom(TokenKindCount, self, env)
    IN IF env.dimInactiveRegions
           THEN LET d == createTextEditorDecorationType(s1.liveDecorations)
                IN [s1 EXCEPT !.inactiveDecoration = d,
                              !.liveDecorations = @ \cup {d},
                              !.calls = Append(@, Call("create", d, 0, <<>>))]
           ELSE s1

\* self carries the fields of this and the calls made so far.
createColorizationDecorations(self, env) ==
    LET s1 == IF env.enhancedColorization = "Enabled" /\ env.intelliSenseEngine = "Default"
                  THEN createDecorationsFrom(TokenKindCount, self, env)
                  ELSE self
    IN IF env.dimInactiveRegions
           THEN LET d == createTextEditorDecorationType(s1.liveDecorations)
                IN [s1 EXCEPT !.inactiveDecoration = d,
                              !.liveDecorations = @ \cup {d},
                              !.calls = Append(@, Call("create", d, 0, <<>>))]
           ELSE s1

\* decoration.dispose()
disposeDecoration(self, d) ==
    [self EXCEPT !.liveDecorations = @ \ {d},
                 !.calls = Append(@, Call("dispose", d, 0, <<>>))]

RECURSIVE disposeDecorationsFrom(_, _)
disposeDecorationsFrom(i, self) ==
    IF i = TokenKindCount
        THEN self
        ELSE disposeDecorationsFrom(i + 1,
                 IF self.decorations[i] # NoDecoration
                     THEN [disposeDecoration(self, self.decorations[i])
                               EXCEPT !.decorations[i] = NoDecoration]
                     ELSE self)

\* The closing loop of the task of updateColorizationRanges: dispose the
\* decorations set aside, from kind i on.
RECURSIVE disposeOldDecorationsFrom(_, _, _)
disposeOldDecorationsFrom(i, self, oldDecorations) ==
    IF i = TokenKindCount
        THEN self
        ELSE disposeOldDecorationsFrom(i + 1,
                 IF oldDecorations[i] # NoDecoration
                     THEN disposeDecoration(self, oldDecorations[i])
                     ELSE self,
                 oldDecorations)

\* Mutant: the fields keep the decorations that were disposed.
disposeColorizationDecorations_FieldsKept(self) ==
    LET s1 == IF self.inactiveDecoration # NoDecoration
                  THEN disposeDecoration(self, self.inactiveDecoration)
                  ELSE self
    IN disposeOldDecorationsFrom(0, s1, self.decorations)

disposeColorizationDecorations(self) ==
    LET s1 == IF self.inactiveDecoration # NoDecoration
                  THEN [disposeDecoration(self, self.inactiveDecoration)
                            EXCEPT !.inactiveDecoration = NoDecoration]
                  ELSE self
    IN disposeDecorationsFrom(0, s1)

\* ------------------------------------------------------------- painting

\* The loop of refreshInner over the token kinds, from kind i on.
RECURSIVE refreshKindsFrom(_, _, _)
refreshKindsFrom(i, self, e) ==
    IF i = TokenKindCount
        THEN self
        ELSE LET ranges == IF Len(self.syntacticRanges[i]) = 0
                               THEN self.semanticRanges[i]
                               ELSE self.syntacticRanges[i] \o self.semanticRanges[i]
             IN refreshKindsFrom(i + 1,
                    IF self.decorations[i] # NoDecoration /\ Len(ranges) > 0
                        THEN [self EXCEPT !.calls = Append(@,
                                  Call("setDecorations", self.decorations[i], e, ranges))]
                        ELSE self,
                    e)

refreshInner(self, env, e) ==
    LET s0 == [self EXCEPT !.calls = Append(@, Call("refreshInner", NoDecoration, e, <<>>))]
        s1 == IF env.enhancedColorization = "Enabled" /\ env.intelliSenseEngine = "Default"
                  THEN refreshKindsFrom(0, s0, e)
                  ELSE s0
    IN IF env.dimInactiveRegions /\ s1.inactiveDecoration # NoDecoration
           THEN [s1 EXCEPT !.calls = Append(@,
                    Call("setDecorations", s1.inactiveDecoration, e, s1.inactiveRanges))]
           ELSE s1

\* for (let e of editors) this.refreshInner(e), the editors in window order
RECURSIVE refreshEditors(_, _, _)
refreshEditors(self, env, editors) ==
    IF editors = {}
        THEN self
        ELSE LET e == CHOOSE x \in editors : \A y \in editors : x <= y
             IN refreshEditors(refreshInner(self, env, e), env, editors \ {e})

\* ------------------------------------------------------------ the edit log

\* Mutant: the semantic pass does not record the version it has applied.
applyEdit_SemanticVersionNotRecorded(self, edit) ==
    LET s1 == IF edit.editVersion > self.currentSyntacticVersion
                  THEN [self EXCEPT
                          !.syntacticRanges = [i \in TokenKinds |->
                               fixRanges(self.syntacticRanges[i], edit.changes)],
                          !.currentSyntacticVersion = edit.editVersion]
                  ELSE self
    IN IF edit.editVersion > s1.currentSemanticVersion
           THEN [s1 EXCEPT
                   !.semanticRanges = [i \in TokenKinds |->
                        fixRanges(s1.semanticRanges[i], edit.changes)],
                   !.inactiveRanges = fixRanges(s1.inactiveRanges, edit.changes)]
           ELSE s1

\* Mutant: the semantic pass follows the applied version of the syntactic.
applyEdit_OneVersionForBoth(self, edit) ==
    IF edit.editVersion > self.currentSyntacticVersion
        THEN [self EXCEPT
                !.syntacticRanges = [i \in TokenKinds |->
                     fixRanges(self.syntacticRanges[i], edit.changes)],
                !.currentSyntacticVersion = edit.editVersion,
                !.semanticRanges = [i \in TokenKinds |->
                     fixRanges(self.semanticRanges[i], edit.changes)],
                !.inactiveRanges = fixRanges(self.inactiveRanges, edit.changes),
                !.currentSemanticVersion = edit.editVersion]
        ELSE self

\* One iteration of the forEach of applyEdits.
applyEdit(self, edit) ==
    LET s1 == IF edit.editVersion > self.currentSyntacticVersion
                  THEN [self EXCEPT
                          !.syntacticRanges = [i \in TokenKinds |->
                               fixRanges(self.syntacticRanges[i], edit.changes)],
                          !.currentSyntacticVersion = edit.editVersion]
                  ELSE self
    IN IF edit.editVersion > s1.currentSemanticVersion
           THEN [s1 EXCEPT
                   !.semanticRanges = [i \in TokenKinds |->
                        fixRanges(s1.semanticRanges[i], edit.changes)],
                   !.inactiveRanges = fixRanges(s1.inactiveRanges, edit.changes),
                   !.currentSemanticVersion = edit.editVersion]
           ELSE s1

RECURSIVE applyEditsFrom(_, _)
applyEditsFrom(self, edits) ==
    IF edits = <<>>
        THEN self
        ELSE applyEditsFrom(applyEdit(self, Head(edits)), Tail(edits))

applyEdits(self) == applyEditsFrom(self, self.versionedEdits)

Min(a, b) == IF a <= b THEN a ELSE b

\* Mutant: an edit of exactly the least received version is kept.
purgeOldVersionedEdits_KeepsEqual(self) ==
    LET minVersion == Min(self.lastReceivedSemanticVersion, self.lastReceivedSyntacticVersion)
        edits == self.versionedEdits
        found == { i \in 1 .. Len(edits) : edits[i].editVersion >= minVersion }
    IN IF found = {}
           THEN [self EXCEPT !.versionedEdits = <<>>]
           ELSE LET index == CHOOSE i \in found : \A j \in found : i <= j
                IN [self EXCEPT !.versionedEdits = SubSeq(edits, index, Len(edits))]

\* Mutant: the edits are purged up to the greater of the two received versions.
purgeOldVersionedEdits_UpToMax(self) ==
    LET maxVersion == IF self.lastReceivedSemanticVersion >= self.lastReceivedSyntacticVersion
                          THEN self.lastReceivedSemanticVersion
                          ELSE self.lastReceivedSyntacticVersion
        edits == self.versionedEdits
        found == { i \in 1 .. Len(edits) : edits[i].editVersion > maxVersion }
    IN IF found = {}
           THEN [self EXCEPT !.versionedEdits = <<>>]
           ELSE LET index == CHOOSE i \in found : \A j \in found : i <= j
                IN [self EXCEPT !.versionedEdits = SubSeq(edits, index, Len(edits))]

purgeOldVersionedEdits(self) ==
    LET minVersion == Min(self.lastReceivedSemanticVersion, self.lastReceivedSyntacticVersion)
        edits == self.versionedEdits
        found == { i \in 1 .. Len(edits) : edits[i].editVersion > minVersion }
    IN IF found = {}
           THEN [self EXCEPT !.versionedEdits = <<>>]
           ELSE LET index == CHOOSE i \in found : \A j \in found : i <= j
                IN [self EXCEPT !.versionedEdits = SubSeq(edits, index, Len(edits))]

\* Mutant: the edit is applied to the ranges as soon as it is recorded.
addEdits_AppliedAtOnce(self, changes, version) ==
    applyEdits([self EXCEPT !.versionedEdits =
                    Append(@, [editVersion |-> version, changes |-> changes])])

addEdits(self, changes, version) ==
    [self EXCEPT !.versionedEdits = Append(@, [editVersion |-> version, changes |-> changes])]

\* --------------------------------------------------------------- the tasks

\* Mutant: the old decorations are disposed before the new ones are created.
updateColorizationRangesTask_DisposeFirst(self, env, uri) ==
    LET s1 == disposeColorizationDecorations(purgeOldVersionedEdits(applyEdits(self)))
        s2 == createColorizationDecorations(s1, env)
        editors == { e \in env.visibleTextEditors : UriToString(DocumentUri(e)) = uri }
    IN refreshEditors(s2, env, editors)

\* The task that updateColorizationRanges queues.
updateColorizationRangesTask(self, env, uri) ==
    LET s1 == purgeOldVersionedEdits(applyEdits(self))
        oldInactiveDecoration == s1.inactiveDecoration
        oldDecorations == s1.decorations
        s2 == [s1 EXCEPT !.inactiveDecoration = NoDecoration,
                         !.decorations = [i \in TokenKinds |-> NoDecoration]]
        s3 == createColorizationDecorations(s2, env)
        editors == { e \in env.visibleTextEditors : UriToString(DocumentUri(e)) = uri }
        s4 == refreshEditors(s3, env, editors)
        s5 == IF oldInactiveDecoration # NoDecoration
                  THEN disposeDecoration(s4, oldInactiveDecoration)
                  ELSE s4
    IN disposeOldDecorationsFrom(0, s5, oldDecorations)

\* The task that onSettingsChanged queues. uri is a Uri object.
onSettingsChangedTask(self, env, uri) ==
    LET s1 == disposeColorizationDecorations(applyEdits(self))
        s2 == createColorizationDecorations(s1, env)
        editors == { e \in env.visibleTextEditors : DocumentUri(e) = uri }
    IN refreshEditors(s2, env, editors)

\* The task that refresh queues.
refreshTask(self, env, e) == refreshInner(self, env, e)

\* Mutant: the applied version is not reset to the version of the result.
updateSyntactic_AppliedVersionKept(self, ranges, version) ==
    [self EXCEPT !.syntacticRanges = ranges,
                 !.lastReceivedSyntacticVersion = version]

updateSyntactic(self, ranges, version) ==
    [self EXCEPT !.syntacticRanges = ranges,
                 !.currentSyntacticVersion = version,
                 !.lastReceivedSyntacticVersion = version]

updateSemantic(self, ranges, inactive, version) ==
    [self EXCEPT !.inactiveRanges = inactive,
                 !.semanticRanges = ranges,
                 !.currentSemanticVersion = version,
                 !.lastReceivedSemanticVersion = version]

\* ------------------------------------------------------------ the editors

\* A window whose editors show no range for any decoration type.
NothingShown == [e \in Editors |-> [d \in Decorations |-> <<>>]]

\* What the editors show after the calls, in order: setDecorations replaces
\* the ranges the editor shows for the decoration type, dispose removes the
\* decoration type from every editor.
RECURSIVE Paint(_, _)
Paint(display, calls) ==
    IF calls = <<>>
        THEN display
        ELSE LET c == Head(calls)
                 next == IF c.op = "setDecorations"
                             THEN [display EXCEPT ![c.editor][c.decoration] = c.ranges]
                             ELSE IF c.op = "dispose"
                             THEN [e \in Editors |->
                                      [display[e] EXCEPT ![c.decoration] = <<>>]]
                             ELSE display
             IN Paint(next, Tail(calls))

\* ------------------------------------------------------------ the chain

\* A task of the chain: what was queued, and the argument it closed over.
Task(kind, editor, uri, uriString) ==
    [kind |-> kind, editor |-> editor, uri |-> uri, uriString |-> uriString]

ReloadTask == Task("reload", 0, 0, "")

\* syncWithLoadingSettings(f): f runs after every task queued before it.
syncWithLoadingSettings(chain, f) == Append(chain, f)

\* this, with no call made yet by the running handler.
Entry == [calls |-> <<>>] @@ this

\* The handler leaves the fields of self, and its calls in trace.
Leave(self) ==
    /\ versionedEdits' = self.versionedEdits
    /\ syntacticRanges' = self.syntacticRanges
    /\ semanticRanges' = self.semanticRanges
    /\ inactiveRanges' = self.inactiveRanges
    /\ currentSyntacticVersion' = self.currentSyntacticVersion
    /\ lastReceivedSyntacticVersion' = self.lastReceivedSyntacticVersion
    /\ currentSemanticVersion' = self.currentSemanticVersion
    /\ lastReceivedSemanticVersion' = self.lastReceivedSemanticVersion
    /\ decorations' = self.decorations
    /\ inactiveDecoration' = self.inactiveDecoration
    /\ liveDecorations' = self.liveDecorations
    /\ shown' = Paint(shown, self.calls)
    /\ trace' = self.calls

environment == << themeStyleMap, enhancedColorization, intelliSenseEngine,
                  dimInactiveRegions, visibleTextEditors >>

\* ----------------------------------------------------------------- actions

Init ==
    /\ versionedEdits = <<>>
    /\ syntacticRanges = [i \in TokenKinds |-> <<>>]
    /\ semanticRanges = [i \in TokenKinds |-> <<>>]
    /\ inactiveRanges = <<>>
    /\ currentSyntacticVersion = 0
    /\ lastReceivedSyntacticVersion = 0
    /\ currentSemanticVersion = 0
    /\ lastReceivedSemanticVersion = 0
    /\ decorations = [i \in TokenKinds |-> NoDecoration]
    /\ inactiveDecoration = NoDecoration
    /\ liveDecorations = {}
    /\ themeStyleMap = [i \in TokenKinds |-> NoStyle]
    /\ pendingTask = <<ReloadTask>>
    /\ loading = FALSE
    /\ enhancedColorization = "Enabled"
    /\ intelliSenseEngine = "Default"
    /\ dimInactiveRegions = TRUE
    /\ visibleTextEditors \in SUBSET Editors
    /\ editVersion = 0
    /\ closed = FALSE
    /\ shown = NothingShown
    /\ trace = <<>>

\* The document changed: addEdits(changes, editVersion).
AddEdits(limit) ==
    /\ ~closed
    /\ editVersion < limit
    /\ \E version \in {editVersion + 1} : \E changes \in DocumentChanges(version) :
          /\ Leave(addEdits(Entry, changes, version))
          /\ editVersion' = version
    /\ UNCHANGED << pendingTask, loading, closed, environment >>

\* refresh(e) for a visible editor of this document.
Refresh ==
    /\ ~closed
    /\ Len(pendingTask) < MaxQueue
    /\ \E e \in visibleTextEditors :
          /\ UriToString(DocumentUri(e)) = ThisUriString
          /\ Leave(applyEdits(Entry))
          /\ pendingTask' = syncWithLoadingSettings(pendingTask, Task("refresh", e, 0, ""))
    /\ UNCHANGED << loading, closed, editVersion, environment >>

\* onSettingsChanged(uri), uri one of the Uri objects of this document's value.
OnSettingsChanged(uris) ==
    /\ ~closed
    /\ Len(pendingTask) < MaxQueue
    /\ \E uri \in uris :
          pendingTask' = syncWithLoadingSettings(pendingTask, Task("settings", 0, uri, ""))
    /\ trace' = <<>>
    /\ UNCHANGED << versionedEdits, syntacticRanges, semanticRanges, inactiveRanges,
                    currentSyntacticVersion, lastReceivedSyntacticVersion,
                    currentSemanticVersion, lastReceivedSemanticVersion,
                    decorations, inactiveDecoration, liveDecorations, shown,
                    loading, closed, editVersion, environment >>

\* A syntactic classification of some version of the document arrives.
UpdateSyntactic ==
    /\ ~closed
    /\ Len(pendingTask) < MaxQueue
    /\ \E ranges \in SyntacticResults : \E version \in 0 .. editVersion :
          Leave(updateSyntactic(Entry, ranges, version))
    /\ pendingTask' = syncWithLoadingSettings(pendingTask, Task("rebuild", 0, 0, ThisUriString))
    /\ UNCHANGED << loading, closed, editVersion, environment >>

\* A semantic classification of some version of the document arrives.
UpdateSemantic ==
    /\ ~closed
    /\ Len(pendingTask) < MaxQueue
    /\ \E result \in SemanticResults : \E version \in 0 .. editVersion :
          Leave(updateSemantic(Entry, result.ranges, result.inactive, version))
    /\ pendingTask' = syncWithLoadingSettings(pendingTask, Task("rebuild", 0, 0, ThisUriString))
    /\ UNCHANGED << loading, closed, editVersion, environment >>

\* dispose(): the document is closed.
Dispose ==
    /\ Leave(disposeColorizationDecorations(Entry))
    /\ closed' = TRUE
    /\ UNCHANGED << pendingTask, loading, editVersion, environment >>

\* ColorizationSettings.reload(): the settings changed.
Reload ==
    /\ Len(pendingTask) < MaxQueue
    /\ pendingTask' = syncWithLoadingSettings(pendingTask, ReloadTask)
    /\ trace' = <<>>
    /\ UNCHANGED << versionedEdits, syntacticRanges, semanticRanges, inactiveRanges,
                    currentSyntacticVersion, lastReceivedSyntacticVersion,
                    currentSemanticVersion, lastReceivedSemanticVersion,
                    decorations, inactiveDecoration, liveDecorations, shown,
                    loading, closed, editVersion, environment >>

\* The reload task at the head of the chain starts and suspends on its
\* first file read.
StartReload ==
    /\ pendingTask # <<>>
    /\ Head(pendingTask).kind = "reload"
    /\ ~loading
    /\ loading' = TRUE
    /\ trace' = <<>>
    /\ UNCHANGED << versionedEdits, syntacticRanges, semanticRanges, inactiveRanges,
                    currentSyntacticVersion, lastReceivedSyntacticVersion,
                    currentSemanticVersion, lastReceivedSemanticVersion,
                    decorations, inactiveDecoration, liveDecorations, shown,
                    pendingTask, closed, editVersion, environment >>

\* The suspended reload resumes and ends, leaving one of the style maps of
\* themes: those of the theme it found (updateStyles), or, the theme not
\* found, the maps as they were.
FinishReload(themes) ==
    /\ loading
    /\ loading' = FALSE
    /\ pendingTask' = Tail(pendingTask)
    /\ themeStyleMap' \in themes
    /\ trace' = <<>>
    /\ UNCHANGED << versionedEdits, syntacticRanges, semanticRanges, inactiveRanges,
                    currentSyntacticVersion, lastReceivedSyntacticVersion,
                    currentSemanticVersion, lastReceivedSemanticVersion,
                    decorations, inactiveDecoration, liveDecorations, shown,
                    closed, editVersion, enhancedColorization, intelliSenseEngine,
                    dimInactiveRegions, visibleTextEditors >>

\* The head of the chain is a task of this document and nothing runs.
Runnable(kind) ==
    /\ pendingTask # <<>>
    /\ ~loading
    /\ Head(pendingTask).kind = kind

RunUpdateColorizationRanges ==
    /\ Runnable("rebuild")
    /\ Leave(updateColorizationRangesTask(Entry, settings, Head(pendingTask).uriString))
    /\ pendingTask' = Tail(pendingTask)
    /\ UNCHANGED << loading, closed, editVersion, environment >>

RunOnSettingsChanged ==
    /\ Runnable("settings")
    /\ Leave(onSettingsChangedTask(Entry, settings, Head(pendingTask).uri))
    /\ pendingTask' = Tail(pendingTask)
    /\ UNCHANGED << loading, closed, editVersion, environment >>

RunRefresh ==
    /\ Runnable("refresh")
    /\ Leave(refreshTask(Entry, settings, Head(pendingTask).editor))
    /\ pendingTask' = Tail(pendingTask)
    /\ UNCHANGED << loading, closed, editVersion, environment >>

\* The user changes a setting of the extension.
ChangeSettings ==
    /\ \/ /\ enhancedColorization' = IF enhancedColorization = "Enabled"
                                         THEN "Disabled" ELSE "Enabled"
          /\ UNCHANGED << intelliSenseEngine, dimInactiveRegions >>
       \/ /\ intelliSenseEngine' = IF intelliSenseEngine = "Default"
                                       THEN "Tag Parser" ELSE "Default"
          /\ UNCHANGED << enhancedColorization, dimInactiveRegions >>
       \/ /\ dimInactiveRegions' = ~dimInactiveRegions
          /\ UNCHANGED << enhancedColorization, intelliSenseEngine >>
    /\ trace' = <<>>
    /\ UNCHANGED << versionedEdits, syntacticRanges, semanticRanges, inactiveRanges,
                    currentSyntacticVersion, lastReceivedSyntacticVersion,
                    currentSemanticVersion, lastReceivedSemanticVersion,
                    decorations, inactiveDecoration, liveDecorations, shown,
                    pendingTask, loading, closed, editVersion,
                    themeStyleMap, visibleTextEditors >>

\* An editor becomes visible or stops being visible.
ChangeVisibleEditors ==
    /\ \E e \in Editors :
          /\ visibleTextEditors' = IF e \in visibleTextEditors
                                       THEN visibleTextEditors \ {e}
                                       ELSE visibleTextEditors \cup {e}
          /\ shown' = [shown EXCEPT ![e] = [d \in Decorations |-> <<>>]]
    /\ trace' = <<>>
    /\ UNCHANGED << versionedEdits, syntacticRanges, semanticRanges, inactiveRanges,
                    currentSyntacticVersion, lastReceivedSyntacticVersion,
                    currentSemanticVersion, lastReceivedSemanticVersion,
                    decorations, inactiveDecoration, liveDecorations,
                    pendingTask, loading, closed, editVersion,
                    themeStyleMap, enhancedColorization, intelliSenseEngine,
                    dimInactiveRegions >>

Next ==
    \/ AddEdits(MaxVersion)
    \/ Refresh
    \/ OnSettingsChanged({1, 2})
    \/ UpdateSyntactic
    \/ UpdateSemantic
    \/ Dispose
    \/ Reload
    \/ StartReload
    \/ FinishReload(LoadedThemes \cup {themeStyleMap})
    \/ RunUpdateColorizationRanges
    \/ RunOnSettingsChanged
    \/ RunRefresh
    \/ ChangeSettings
    \/ ChangeVisibleEditors

\* The document in whatever window, settings and theme.
SpecAll == Init /\ [][Next]_vars

\* The edit log and the token ranges read neither the settings nor the theme
\* nor the window. Spec follows them through every edit and every result with
\* the settings as installed, the document visible in editor 1 and one theme.
InitEdits ==
    /\ Init
    /\ visibleTextEditors = {1}

TheTheme == [k \in TokenKinds |-> ThemeStyle("#d4d4d4", "", "")]

NextEdits ==
    \/ AddEdits(MaxVersion)
    \/ Refresh
    \/ OnSettingsChanged({1})
    \/ UpdateSyntactic
    \/ UpdateSemantic
    \/ Dispose
    \/ Reload
    \/ StartReload
    \/ FinishReload({TheTheme})
    \/ RunUpdateColorizationRanges
    \/ RunOnSettingsChanged
    \/ RunRefresh

Spec == InitEdits /\ [][NextEdits]_vars

\* The decorations read the ranges only to paint them. SpecRender follows them
\* through every change of the settings and the window and every theme the
\* first reload may find, the document never edited.
NextRender ==
    \/ Refresh
    \/ OnSettingsChanged({1, 2})
    \/ UpdateSyntactic
    \/ UpdateSemantic
    \/ Dispose
    \/ StartReload
    \/ FinishReload(LoadedThemes)
    \/ RunUpdateColorizationRanges
    \/ RunOnSettingsChanged
    \/ RunRefresh
    \/ ChangeSettings
    \/ ChangeVisibleEditors

SpecRender == Init /\ [][NextRender]_vars

\* ------------------------------------------- the range transformer alone

Positions == { Position(l, c) : l \in 0 .. MaxLine, c \in 0 .. MaxCharacter }

\* The ranges of a classification result and the ranges of a change.
Ranges == { Range(a, b) : a, b \in Positions }

Texts == UNION { [1 .. n -> {"a", "\n"}] : n \in 0 .. MaxText }

Changes == { Change(r, t) : r \in Ranges, t \in Texts }

\* A text of the extent of the range: what a change of that range removed.
RemovedText(range) ==
    LET lines == range.end.line - range.start.line
        lastLength == IF lines = 0
                          THEN range.end.character - range.start.character
                          ELSE range.end.character
    IN [i \in 1 .. lines |-> "\n"] \o [i \in 1 .. lastLength |-> "a"]

\* The change that undoes a change: it removes what the change inserted and
\* inserts what the change removed.
Inverse(change) ==
    Change(textToRange(change.text, change.range.start), RemovedText(change.range))

\* The fields of a ColorizationState as its constructor leaves them.
Constructed ==
    [ calls |-> <<>>,
      versionedEdits |-> <<>>,
      syntacticRanges |-> [i \in TokenKinds |-> <<>>],
      semanticRanges |-> [i \in TokenKinds |-> <<>>],
      inactiveRanges |-> <<>>,
      currentSyntacticVersion |-> 0,
      lastReceivedSyntacticVersion |-> 0,
      currentSemanticVersion |-> 0,
      lastReceivedSemanticVersion |-> 0,
      decorations |-> [i \in TokenKinds |-> NoDecoration],
      inactiveDecoration |-> NoDecoration,
      liveDecorations |-> {} ]

\* The settings as installed, the theme loaded, the document in editor 1.
InstalledSettings ==
    [ enhancedColorization |-> "Enabled",
      intelliSenseEngine |-> "Default",
      dimInactiveRegions |-> TRUE,
      themeStyleMap |-> TheTheme,
      visibleTextEditors |-> {1} ]

\* The state fixRange is followed from. The semantic pass of version 0 gave
\* one inactive region, range; the document was then edited: by change
\* (version 1) and, undone being set, by the inverse of change (version 2);
\* the syntactic pass of the latest version gave range as the one range of
\* kind 0. The tasks of the two results are pending. The first to run takes
\* the inactive region through the edits (fixRanges, fixRange on each change)
\* and leaves the syntactic range, which is up to date, alone.
Edited(range, change, undone) ==
    LET s1 == updateSemantic(Constructed, [i \in TokenKinds |-> <<>>], <<range>>, 0)
        s2 == addEdits(s1, <<change>>, 1)
        s3 == IF undone THEN addEdits(s2, <<Inverse(change)>>, 2) ELSE s2
    IN updateSyntactic(s3, [i \in TokenKinds |-> IF i = 0 THEN <<range>> ELSE <<>>],
                       IF undone THEN 2 ELSE 1)

InitFixRange ==
    \E range \in Ranges : \E change \in Changes : \E undone \in BOOLEAN :
        LET self == Edited(range, change, undone)
        IN /\ versionedEdits = self.versionedEdits
           /\ syntacticRanges = self.syntacticRanges
           /\ semanticRanges = self.semanticRanges
           /\ inactiveRanges = self.inactiveRanges
           /\ currentSyntacticVersion = self.currentSyntacticVersion
           /\ lastReceivedSyntacticVersion = self.lastReceivedSyntacticVersion
           /\ currentSemanticVersion = self.currentSemanticVersion
           /\ lastReceivedSemanticVersion = self.lastReceivedSemanticVersion
           /\ decorations = self.decorations
           /\ inactiveDecoration = self.inactiveDecoration
           /\ liveDecorations = self.liveDecorations
           /\ themeStyleMap = InstalledSettings.themeStyleMap
           /\ pendingTask = << Task("rebuild", 0, 0, ThisUriString),
                               Task("rebuild", 0, 0, ThisUriString) >>
           /\ loading = FALSE
           /\ enhancedColorization = InstalledSettings.enhancedColorization
           /\ intelliSenseEngine = InstalledSettings.intelliSenseEngine
           /\ dimInactiveRegions = InstalledSettings.dimInactiveRegions
           /\ visibleTextEditors = InstalledSettings.visibleTextEditors
           /\ editVersion = self.currentSyntacticVersion
           /\ closed = FALSE
           /\ shown = NothingShown
           /\ trace = <<>>

NextFixRange == RunUpdateColorizationRanges

SpecFixRange == InitFixRange /\ [][NextFixRange]_vars

\* ------------------------------------------------------------------ claims

\* The positions in the calls of a handler of the calls of the given kinds.
CallsOf(calls, ops) == { i \in 1 .. Len(calls) : calls[i].op \in ops }

\* The decorations the fields of the state hold.
HeldDecorations(kinds, inactive) ==
    ({ kinds[i] : i \in TokenKinds } \cup {inactive}) \ {NoDecoration}

\* In the calls, every dispose comes after every creation and every painting.
DisposeComesLast(calls) ==
    \A i \in CallsOf(calls, {"dispose"}) :
        \A j \in CallsOf(calls, {"create", "refreshInner", "setDecorations"}) : j < i

\* C1: the task queued by updateSyntactic/updateSemantic disposes every
\* decoration that was held when it began, and only those, and each only after
\* the new decorations were created and refreshInner ran on every visible
\* editor whose document has the uri of the task.
C1_RebuildDisposesOldLast ==
    [][ RunUpdateColorizationRanges =>
          LET old == HeldDecorations(decorations, inactiveDecoration)
              calls == trace'
              editors == { e \in visibleTextEditors :
                             UriToString(DocumentUri(e)) = Head(pendingTask).uriString }
          IN /\ { calls[i].decoration : i \in CallsOf(calls, {"dispose"}) } = old
             /\ DisposeComesLast(calls)
             /\ \A e \in editors :
                   \E j \in CallsOf(calls, {"refreshInner"}) : calls[j].editor = e
             /\ HeldDecorations(decorations', inactiveDecoration')
                    = { calls[i].decoration : i \in CallsOf(calls, {"create"}) }
             /\ HeldDecorations(decorations', inactiveDecoration') \cap old = {}
      ]_vars

\* C1 witness: a task has created decorations, painted an editor and then
\* disposed an old decoration.
C1_Witness ==
    \E i, j, k \in 1 .. Len(trace) :
        /\ i < j /\ j < k
        /\ trace[i].op = "create"
        /\ trace[j].op = "setDecorations"
        /\ trace[k].op = "dispose"

\* C2: the task queued by onSettingsChanged disposes no decoration before the
\* new decorations have been created and applied to the visible editors.
C2_SettingsChangeDisposesOldLast ==
    [][ RunOnSettingsChanged => DisposeComesLast(trace') ]_vars

\* The versions of the edits of a log.
Versions(edits) == { edits[i].editVersion : i \in 1 .. Len(edits) }

\* What reconciliation decides: the ranges and the applied versions.
Reconciled(self) ==
    << self.syntacticRanges, self.semanticRanges, self.inactiveRanges,
       self.currentSyntacticVersion, self.currentSemanticVersion >>

\* A task queued by a classification result is still pending in the chain.
RebuildPending(chain) == \E i \in 1 .. Len(chain) : chain[i].kind = "rebuild"

\* C3: when the tasks queued by the classification results received so far
\* have all run, both passes have been brought through every edit recorded so
\* far, whatever the order in which edits and results arrived.
C3_ResultBroughtForward ==
    [][ RunUpdateColorizationRanges /\ ~RebuildPending(pendingTask') =>
          /\ currentSyntacticVersion' >= editVersion
          /\ currentSemanticVersion' >= editVersion ]_vars

\* C4: the purge of the task of updateColorizationRanges leaves exactly the
\* edits of a version greater than the lesser of the two last received
\* versions, in their order.
C4_PurgeLeavesNewerEdits ==
    [][ RunUpdateColorizationRanges =>
          LET minVersion == Min(lastReceivedSyntacticVersion, lastReceivedSemanticVersion)
              Newer(edit) == edit.editVersion > minVersion
          IN versionedEdits' = SelectSeq(versionedEdits, Newer) ]_vars

\* C4 witness: a purge has removed the edit of version 1 and kept a later one.
C4_Witness ==
    /\ versionedEdits # <<>>
    /\ versionedEdits[1].editVersion > 1
    /\ Min(lastReceivedSyntacticVersion, lastReceivedSemanticVersion) >= 1

\* C5: in every state, applying the edits after a purge gives the ranges and
\* applied versions that applying them without the purge gives, and the purge
\* removes no edit newer than the applied version of either pass.
C5_PurgeKeepsReconciliation ==
    /\ Reconciled(applyEdits(purgeOldVersionedEdits(Entry))) = Reconciled(applyEdits(Entry))
    /\ \A v \in Versions(versionedEdits) \ Versions(purgeOldVersionedEdits(Entry).versionedEdits) :
          v <= currentSyntacticVersion /\ v <= currentSemanticVersion

\* C5 witness: the purge removes an edit and the edits left move ranges.
C5_Witness ==
    /\ purgeOldVersionedEdits(Entry).versionedEdits # versionedEdits
    /\ applyEdits(Entry).syntacticRanges # syntacticRanges
    /\ applyEdits(Entry).inactiveRanges # inactiveRanges

\* C6: no edit of the log has a version at or below the lesser of the two
\* last received versions.
C6_NoEditAtOrBelowReceived ==
    \A v \in Versions(versionedEdits) :
        v > Min(lastReceivedSyntacticVersion, lastReceivedSemanticVersion)

\* C7: after applyEdits has run, running it again changes no range, no
\* inactive range and no applied version.
C7_ApplyEditsIdempotent ==
    Reconciled(applyEdits(applyEdits(Entry))) = Reconciled(applyEdits(Entry))

\* C7 witness: the first run of applyEdits moves ranges of both passes.
C7_Witness ==
    /\ applyEdits(Entry).syntacticRanges # syntacticRanges
    /\ applyEdits(Entry).semanticRanges # semanticRanges
    /\ applyEdits(Entry).currentSemanticVersion > currentSemanticVersion

\* C8 as stated: the applied versions never decrease.
C8_AppliedVersionNeverDecreases ==
    [][ /\ currentSyntacticVersion' >= currentSyntacticVersion
        /\ currentSemanticVersion' >= currentSemanticVersion ]_vars

\* C8 amended: a step that is not the receipt of a result for the pass leaves
\* the applied version of the pass or advances it to the version of an edit
\* of the log; the receipt of a result sets it to the version of the result,
\* lower or not.
C8_AppliedVersionAmended ==
    [][ /\ UpdateSyntactic =>
              currentSyntacticVersion' = lastReceivedSyntacticVersion'
        /\ ~UpdateSyntactic =>
              \/ currentSyntacticVersion' = currentSyntacticVersion
              \/ /\ currentSyntacticVersion' > currentSyntacticVersion
                 /\ currentSyntacticVersion' \in Versions(versionedEdits)
        /\ UpdateSemantic =>
              currentSemanticVersion' = lastReceivedSemanticVersion'
        /\ ~UpdateSemantic =>
              \/ currentSemanticVersion' = currentSemanticVersion
              \/ /\ currentSemanticVersion' > currentSemanticVersion
                 /\ currentSemanticVersion' \in Versions(versionedEdits)
      ]_vars

\* C8 witness: the syntactic pass has advanced past its last result by
\* consuming edits, and a result has set the semantic pass back below it.
C8_Witness ==
    /\ currentSyntacticVersion > lastReceivedSyntacticVersion
    /\ currentSemanticVersion < currentSyntacticVersion
    /\ currentSemanticVersion = lastReceivedSemanticVersion
    /\ Len(semanticRanges[0]) > 0

\* C9: the last received versions never decrease.
C9_LastReceivedNeverDecreases ==
    [][ /\ lastReceivedSyntacticVersion' >= lastReceivedSyntacticVersion
        /\ lastReceivedSemanticVersion' >= lastReceivedSemanticVersion ]_vars

\* C10: the edit log, the ranges, the versions and the decorations change
\* only in a step that runs the task at the head of the chain.
C10_MutationOnlyInsideTask ==
    [][ << versionedEdits, syntacticRanges, semanticRanges, inactiveRanges,
           currentSyntacticVersion, lastReceivedSyntacticVersion,
           currentSemanticVersion, lastReceivedSemanticVersion,
           decorations, inactiveDecoration >>'
          # << versionedEdits, syntacticRanges, semanticRanges, inactiveRanges,
               currentSyntacticVersion, lastReceivedSyntacticVersion,
               currentSemanticVersion, lastReceivedSemanticVersion,
               decorations, inactiveDecoration >>
        => /\ pendingTask # <<>>
           /\ Head(pendingTask).kind # "reload"
           /\ ~loading
           /\ pendingTask' = Tail(pendingTask) ]_vars

\* The ranges of both passes have been brought through every edit of the log.
CaughtUp ==
    \A v \in Versions(versionedEdits) :
        v <= currentSyntacticVersion /\ v <= currentSemanticVersion

\* C11 as stated: the step that records an edit leaves both passes brought
\* through it and has painted an editor with the decorations there are.
C11_EditTakesEffectAtOnce ==
    [][ editVersion' # editVersion =>
          /\ currentSyntacticVersion' >= editVersion'
          /\ currentSemanticVersion' >= editVersion'
          /\ CallsOf(trace', {"refreshInner"}) # {} ]_vars

\* C11 amended: the step that records an edit appends it to the log and
\* changes no range, no version and no decoration and paints nothing; the edit
\* reaches the ranges with the next applyEdits (refresh, or the task of a
\* result or of a settings change), which leaves both passes brought through
\* every edit of the log.
C11_EditRecordedThenApplied ==
    [][ /\ editVersion' # editVersion =>
              /\ Len(versionedEdits') = Len(versionedEdits) + 1
              /\ SubSeq(versionedEdits', 1, Len(versionedEdits)) = versionedEdits
              /\ versionedEdits'[Len(versionedEdits')].editVersion = editVersion'
              /\ Reconciled(this') = Reconciled(this)
              /\ UNCHANGED << decorations, inactiveDecoration, liveDecorations,
                              lastReceivedSyntacticVersion, lastReceivedSemanticVersion >>
              /\ trace' = <<>>
        /\ (Refresh \/ RunUpdateColorizationRanges \/ RunOnSettingsChanged) => CaughtUp'
      ]_vars

\* C11 witness: an edit is in the log, the ranges it moves are not yet moved.
C11_Witness ==
    /\ versionedEdits # <<>>
    /\ versionedEdits[Len(versionedEdits)].editVersion = editVersion
    /\ currentSyntacticVersion < editVersion
    /\ syntacticRanges[0] = <<RangeA, RangeB>>
    /\ trace = <<>>

\* C12: once the document is closed and no task is left in the chain, every
\* decoration created for it has been disposed.
C12_NoDecorationLeftAfterClose ==
    (closed /\ pendingTask = <<>>) => liveDecorations = {}

\* Every dispose among the calls is made on a decoration that is live when
\* the call is made: one of live or created by an earlier call, and not
\* disposed since.
RECURSIVE DisposesLiveOnly(_, _)
DisposesLiveOnly(calls, live) ==
    IF calls = <<>>
        THEN TRUE
        ELSE LET c == Head(calls)
             IN IF c.op = "create"
                    THEN DisposesLiveOnly(Tail(calls), live \cup {c.decoration})
                    ELSE IF c.op = "dispose"
                    THEN /\ c.decoration \in live
                         /\ DisposesLiveOnly(Tail(calls), live \ {c.decoration})
                    ELSE DisposesLiveOnly(Tail(calls), live)

\* C13: no handler disposes a decoration that is already disposed, and in
\* every state a dispose() that follows a dispose() makes no call and leaves
\* every field as the first left it.
C13_DisposalIdempotent ==
    /\ [][ DisposesLiveOnly(trace', liveDecorations) ]_vars
    /\ [](LET once == disposeColorizationDecorations(Entry)
              twice == disposeColorizationDecorations([once EXCEPT !.calls = <<>>])
          IN /\ twice.calls = <<>>
             /\ [twice EXCEPT !.calls = once.calls] = once)

\* C13 witness: dispose() has disposed the decorations of a closed document.
C13_Witness ==
    /\ closed
    /\ Cardinality(CallsOf(trace, {"dispose"})) >= 2
    /\ CallsOf(trace, {"create"}) = {}
    /\ HeldDecorations(decorations, inactiveDecoration) = {}

\* The settings allow the decorations of the token kinds.
ColorizationEnabled ==
    enhancedColorization = "Enabled" /\ intelliSenseEngine = "Default"

\* C14: after the task of updateColorizationRanges or of onSettingsChanged,
\* a decoration of a token kind is live only if the task found
\* enhancedColorization "Enabled" and intelliSenseEngine "Default"; every
\* decoration held before the task has been disposed; and the inactive-region
\* decoration is there, newly created, exactly when dimInactiveRegions is set.
C14_DecorationsFollowSettings ==
    [][ (RunUpdateColorizationRanges \/ RunOnSettingsChanged) =>
          LET old == HeldDecorations(decorations, inactiveDecoration)
              calls == trace'
              created == { calls[i].decoration : i \in CallsOf(calls, {"create"}) }
              disposed == { calls[i].decoration : i \in CallsOf(calls, {"dispose"}) }
              ofKinds == { decorations'[i] : i \in TokenKinds } \ {NoDecoration}
          IN /\ ~ColorizationEnabled =>
                   /\ ofKinds = {}
                   /\ liveDecorations' \ {inactiveDecoration'} = {}
                   /\ created \subseteq {inactiveDecoration'}
             /\ ColorizationEnabled =>
                   /\ ofKinds \subseteq created
                   /\ \A i \in TokenKinds :
                         decorations'[i] # NoDecoration <=> themeStyleMap[i] # NoStyle
             /\ disposed = old
             /\ inactiveDecoration' # NoDecoration <=> dimInactiveRegions
             /\ dimInactiveRegions => inactiveDecoration' \in created
             /\ liveDecorations' = HeldDecorations(decorations', inactiveDecoration')
      ]_vars

\* C14 witness: a task found colorization disabled and dimInactiveRegions
\* set: it disposed the decorations of the token kinds and created only the
\* inactive-region decoration.
C14_Witness ==
    /\ ~ColorizationEnabled
    /\ dimInactiveRegions
    /\ Cardinality(CallsOf(trace, {"dispose"})) >= 2
    /\ Cardinality(CallsOf(trace, {"create"})) = 1
    /\ liveDecorations = {inactiveDecoration}

\* The order of the positions of a document.
AtOrBefore(a, b) == a = b \/ isBefore(a, b)

AtOrAfter(a, b) == a = b \/ isBefore(b, a)

\* Under SpecFixRange: the range given to fixRange, the change it is taken
\* through, and, once the task has run, what fixRange made of it.
TheRange == syntacticRanges[0][1]

TheChange == versionedEdits[1].changes[1]

RemovedStart == TheChange.range.start

RemovedEnd == TheChange.range.end

InsertedEnd == textToRange(TheChange.text, TheChange.range.start).end

\* The inactive region has been taken through the one edit of the log.
AppliedOnce == Len(versionedEdits) = 1 /\ currentSemanticVersion = editVersion

TheResult == IF inactiveRanges = <<>> THEN Null ELSE inactiveRanges[1]

\* C15: a change that removes nothing and inserts nothing, at any position,
\* leaves the range as it was.
C15_ZeroLengthEditIsIdentity ==
    (AppliedOnce /\ RemovedStart = RemovedEnd /\ TheChange.text = <<>>)
        => TheResult = TheRange

\* C15 witness: the empty change lay strictly inside the range, on the line
\* the range ends on.
C15_Witness ==
    /\ AppliedOnce /\ RemovedStart = RemovedEnd /\ TheChange.text = <<>>
    /\ isBefore(TheRange.start, RemovedStart)
    /\ isBefore(RemovedStart, TheRange.end)
    /\ RemovedStart.line = TheRange.end.line
    /\ TheResult = TheRange

\* C16 as stated: a change whose removed range starts at or before the start
\* of the range and ends at or after its end leaves no range, whatever it
\* inserts.
C16_ConsumedRangeIsAbsent ==
    (AppliedOnce /\ AtOrBefore(RemovedStart, TheRange.start)
                 /\ AtOrAfter(RemovedEnd, TheRange.end))
        => TheResult = Null

\* C16 amended: so it is when the removed range starts before the end of the
\* range; a change that starts where an empty range lies leaves that range.
C16_ConsumedRangeAmended ==
    /\ (AppliedOnce /\ AtOrBefore(RemovedStart, TheRange.start)
                    /\ isBefore(RemovedStart, TheRange.end)
                    /\ AtOrAfter(RemovedEnd, TheRange.end))
           => TheResult = Null
    /\ (AppliedOnce /\ RemovedStart = TheRange.start /\ RemovedStart = TheRange.end)
           => TheResult = TheRange

\* C16 witness: an empty range strictly inside the removed range is gone, the
\* change having inserted text.
C16_Witness ==
    /\ AppliedOnce
    /\ TheRange.start = TheRange.end
    /\ isBefore(RemovedStart, TheRange.start)
    /\ isBefore(TheRange.end, RemovedEnd)
    /\ TheChange.text # <<>>
    /\ TheResult = Null

\* C17: a change that starts at or after the end of the range leaves the
\* range as it was, whatever it removes and whatever it inserts.
C17_LaterEditLeavesRange ==
    (AppliedOnce /\ AtOrAfter(RemovedStart, TheRange.end))
        => TheResult = TheRange

\* C17 witness: the change started exactly at the end of a range that is not
\* empty, removed text and inserted a line break.
C17_Witness ==
    /\ AppliedOnce
    /\ RemovedStart = TheRange.end
    /\ TheRange.start # TheRange.end
    /\ RemovedEnd # RemovedStart
    /\ InsertedEnd.line > RemovedStart.line
    /\ TheResult = TheRange

\* The change removes nothing and lies before the range: at or before its
\* start and before its end.
InsertionBefore ==
    /\ RemovedStart = RemovedEnd
    /\ AtOrBefore(RemovedStart, TheRange.start)
    /\ isBefore(RemovedStart, TheRange.end)

LineBreaks(text) == Cardinality({ i \in 1 .. Len(text) : text[i] = "\n" })

\* C18: text without a line break inserted before the range on the line the
\* range starts on moves the start of the range right by the length of the
\* text, and the end too when it is on that line, and no line number; text
\* with n line breaks inserted before the range moves both its lines down
\* by n.
C18_InsertionBeforeShifts ==
    (AppliedOnce /\ InsertionBefore) =>
        LET k == Len(TheChange.text)
            n == LineBreaks(TheChange.text)
        IN /\ TheResult # Null
           /\ TheResult.start.line = TheRange.start.line + n
           /\ TheResult.end.line = TheRange.end.line + n
           /\ (n = 0 /\ RemovedStart.line = TheRange.start.line) =>
                 /\ TheResult.start.character = TheRange.start.character + k
                 /\ TheResult.end.character =
                        IF TheRange.end.line = TheRange.start.line
                            THEN TheRange.end.character + k
                            ELSE TheRange.end.character

\* C18 witness: two characters were inserted before a range of one line, on
\* that line, and the range has moved right by two.
C18_Witness ==
    /\ AppliedOnce /\ InsertionBefore
    /\ TheChange.text = <<"a", "a">>
    /\ isBefore(RemovedStart, TheRange.start)
    /\ RemovedStart.line = TheRange.start.line
    /\ TheRange.end.line = TheRange.start.line
    /\ TheRange.end.character > TheRange.start.character
    /\ TheResult = Range4(TheRange.start.line, TheRange.start.character + 2,
                          TheRange.end.line, TheRange.end.character + 2)

\* The inactive region has been taken through the change and its inverse.
AppliedTwice == Len(versionedEdits) = 2 /\ currentSemanticVersion = editVersion

\* C19: a range taken through a change and then through the inverse of the
\* change (what the change inserted removed, what it removed inserted back)
\* is the range it was.
C19_RoundTripRestoresRange ==
    AppliedTwice => TheResult = TheRange

\* The tests of fixRange, in the order the code makes them.
EditAfterRange == AtOrAfter(RemovedStart, TheRange.end)

EditFromBefore == ~EditAfterRange /\ AtOrBefore(RemovedStart, TheRange.start)

EditFromInside == ~EditAfterRange /\ ~AtOrBefore(RemovedStart, TheRange.start)

RangeConsumed == EditFromBefore /\ AtOrAfter(RemovedEnd, TheRange.end)

RangeShifted == EditFromBefore /\ ~AtOrAfter(RemovedEnd, TheRange.end)

TailConsumed == EditFromInside /\ AtOrAfter(RemovedEnd, TheRange.end)

TailOnLastLine ==
    /\ EditFromInside /\ ~AtOrAfter(RemovedEnd, TheRange.end)
    /\ RemovedEnd.line = TheRange.end.line

TailOnLaterLine ==
    /\ EditFromInside /\ ~AtOrAfter(RemovedEnd, TheRange.end)
    /\ RemovedEnd.line # TheRange.end.line

NonNegative(range) ==
    /\ range.start.line >= 0 /\ range.start.character >= 0
    /\ range.end.line >= 0 /\ range.end.character >= 0

\* C20: for a range and a change, each with its start at or before its end,
\* and the end of the insertion as textToRange gives it, exactly one case of
\* fixRange applies and the result is the result of that case; a result
\* that is a range has no negative line or character, and its start is at or
\* before its end; so has the range between the two shifts.
C20_OneBranchAndWellFormedResult ==
    AppliedOnce =>
        /\ Cardinality({ b \in { <<1, EditAfterRange>>, <<2, RangeConsumed>>,
                                  <<3, RangeShifted>>, <<4, TailConsumed>>,
                                  <<5, TailOnLastLine>>, <<6, TailOnLaterLine>> } :
                            b[2] }) = 1
        /\ EditAfterRange => TheResult = TheRange
        /\ RangeConsumed <=> TheResult = Null
        /\ TailConsumed => TheResult = [start |-> TheRange.start, end |-> InsertedEnd]
        /\ TailOnLastLine =>
              TheResult = [start |-> TheRange.start,
                           end |-> Position(InsertedEnd.line,
                                            InsertedEnd.character
                                              + (TheRange.end.character
                                                   - RemovedEnd.character))]
        /\ TailOnLaterLine =>
              TheResult = [start |-> TheRange.start,
                           end |-> Position(TheRange.end.line
                                              + (InsertedEnd.line - RemovedEnd.line),
                                            TheRange.end.character)]
        /\ RangeShifted =>
              NonNegative(shiftRangeAfterRemove(
                  IF AtOrAfter(RemovedEnd, TheRange.start)
                      THEN [start |-> RemovedEnd, end |-> TheRange.end]
                      ELSE TheRange,
                  RemovedStart, RemovedEnd))
        /\ TheResult # Null =>
              /\ NonNegative(TheResult)
              /\ AtOrBefore(TheResult.start, TheResult.end)

\* C20 witness: the change removed the head of the range, from a line
\* before it, and inserted text; the tail is left, shifted.
C20_Witness ==
    /\ AppliedOnce
    /\ RangeShifted
    /\ RemovedStart.line < TheRange.start.line
    /\ isBefore(TheRange.start, RemovedEnd)
    /\ TheChange.text # <<>>
    /\ TheResult # Null
    /\ TheResult # TheRange

\* C21: after the task of refresh(e) has run with the decorations of the
\* token kinds enabled, editor e shows, for every kind that has a decoration,
\* the syntactic ranges of the kind followed by its semantic ranges, also
\* when there is none any more.
C21_RefreshShowsMergedRanges ==
    [][ (RunRefresh /\ ColorizationEnabled) =>
          LET e == Head(pendingTask).editor
          IN \A i \in TokenKinds :
                decorations'[i] # NoDecoration =>
                    shown'[e][decorations'[i]] = syntacticRanges'[i] \o semanticRanges'[i]
      ]_vars

\* C22: a task that builds new decorations, that of a classification result
\* and that of a settings change alike, runs refreshInner on every visible
\* editor whose document has a uri of the value of the uri given to the
\* operation, be it the same Uri object or another.
C22_RebuildRepaintsEveryView ==
    [][ (RunUpdateColorizationRanges \/ RunOnSettingsChanged) =>
          LET task == Head(pendingTask)
              value == IF task.kind = "settings"
                           THEN UriToString(task.uri)
                           ELSE task.uriString
          IN \A e \in visibleTextEditors :
                UriToString(DocumentUri(e)) = value =>
                    \E j \in CallsOf(trace', {"refreshInner"}) : trace'[j].editor = e
      ]_vars

\* The ranges taken through the edits, in order.
RECURSIVE ThroughEdits(_, _)
ThroughEdits(ranges, edits) ==
    IF edits = <<>>
        THEN ranges
        ELSE ThroughEdits(fixRanges(ranges, Head(edits).changes), Tail(edits))

\* The edits of the log newer than the version.
EditsAfter(version) ==
    LET Newer(edit) == edit.editVersion > version
    IN SelectSeq(versionedEdits, Newer)

\* The version a pass is at after applyEdits, having been at version.
VersionAfter(version) ==
    LET edits == EditsAfter(version)
    IN IF edits = <<>> THEN version ELSE edits[Len(edits)].editVersion

\* C23: in every state applyEdits takes each pass through the edits newer
\* than the applied version of that pass and through no other, and moves
\* the applied version of that pass alone: the syntactic ranges follow
\* currentSyntacticVersion, the semantic ranges and the inactive ranges
\* follow currentSemanticVersion.
C23_EachPassByItsOwnVersion ==
    LET after == applyEdits(Entry)
    IN /\ \A i \in TokenKinds :
             /\ after.syntacticRanges[i] =
                    ThroughEdits(syntacticRanges[i], EditsAfter(currentSyntacticVersion))
             /\ after.semanticRanges[i] =
                    ThroughEdits(semanticRanges[i], EditsAfter(currentSemanticVersion))
       /\ after.inactiveRanges =
              ThroughEdits(inactiveRanges, EditsAfter(currentSemanticVersion))
       /\ after.currentSyntacticVersion = VersionAfter(currentSyntacticVersion)
       /\ after.currentSemanticVersion = VersionAfter(currentSemanticVersion)

\* C23 witness: the log has an edit newer than the syntactic pass and not
\* newer than the semantic pass; applyEdits moves the syntactic ranges and
\* leaves the semantic ranges and the inactive ranges, which are not empty.
C23_Witness ==
    /\ EditsAfter(currentSyntacticVersion) # <<>>
    /\ EditsAfter(currentSemanticVersion) = <<>>
    /\ applyEdits(Entry).syntacticRanges # syntacticRanges
    /\ semanticRanges[0] # <<>>
    /\ inactiveRanges # <<>>
    /\ applyEdits(Entry).semanticRanges = semanticRanges
    /\ applyEdits(Entry).inactiveRanges = inactiveRanges
    /\ applyEdits(Entry).currentSemanticVersion = currentSemanticVersion

\* The place in the calls of the creation of the decoration, 0 if there is none.
CreatedAt(calls, d) ==
    LET at == {j \in CallsOf(calls, {"create"}) : calls[j].decoration = d}
    IN IF at = {} THEN 0 ELSE CHOOSE j \in at : TRUE

\* C24: within one rebuild of the decorations, by the task of
\* updateColorizationRanges or of onSettingsChanged, of two token kinds
\* i < j that both receive a decoration the one of j is created before
\* the one of i.
C24_CreatedInDecreasingOrder ==
    [][ (RunUpdateColorizationRanges \/ RunOnSettingsChanged) =>
          \A i, j \in TokenKinds :
              (i < j /\ decorations'[i] # NoDecoration /\ decorations'[j] # NoDecoration) =>
                  /\ CreatedAt(trace', decorations'[i]) > 0
                  /\ CreatedAt(trace', decorations'[j]) > 0
                  /\ CreatedAt(trace', decorations'[j]) < CreatedAt(trace', decorations'[i]) ]_vars

\* C24 witness: a rebuild has given a decoration to two token kinds, the
\* one of the greater kind first.
C24_Witness ==
    \E i, j \in TokenKinds :
        /\ i < j
        /\ decorations[i] # NoDecoration
        /\ decorations[j] # NoDecoration
        /\ CreatedAt(trace, decorations[j]) > 0
        /\ CreatedAt(trace, decorations[j]) < CreatedAt(trace, decorations[i])

\* The change is confined to the line the range starts on, ends at or before
\* the start of the range and inserts no line break.
ReplacementBeforeOnLine ==
    /\ RemovedStart.line = TheRange.start.line
    /\ RemovedEnd.line = TheRange.start.line
    /\ AtOrBefore(RemovedEnd, TheRange.start)
    /\ LineBreaks(TheChange.text) = 0

\* Inserted length less removed length, of a change confined to one line.
NetLength ==
    Len(TheChange.text) - (RemovedEnd.character - RemovedStart.character)

\* The range with its start moved by NetLength, and its end too when it is
\* on the line of the start.
ShiftedOnLine ==
    [ start |-> Position(TheRange.start.line, TheRange.start.character + NetLength),
      end |-> IF TheRange.end.line = TheRange.start.line
                  THEN Position(TheRange.end.line, TheRange.end.character + NetLength)
                  ELSE TheRange.end ]

\* C25 as stated: a replacement confined to the line the range starts on,
\* ending at or before the start of the range and inserting no line break,
\* moves the start character of the range, and its end character when the
\* end is on that line, by inserted length less removed length, and no
\* line number.
C25_ReplacementBeforeShifts ==
    (AppliedOnce /\ ReplacementBeforeOnLine) => TheResult = ShiftedOnLine

\* C25 amended: so it is when the removed range ends before the end of the
\* range; an empty range where the removed range ends is left as it was by
\* a change that removes nothing and is gone after a change that removes
\* text.
C25_ReplacementBeforeAmended ==
    /\ (AppliedOnce /\ ReplacementBeforeOnLine /\ isBefore(RemovedEnd, TheRange.end))
           => TheResult = ShiftedOnLine
    /\ (AppliedOnce /\ ReplacementBeforeOnLine /\ RemovedEnd = TheRange.end)
           => TheResult = IF RemovedStart = RemovedEnd THEN TheRange ELSE Null

\* C25 witness: the change removed more than it inserted just before a
\* range that ends on a later line; the start moved left, the end stayed.
C25_Witness ==
    /\ AppliedOnce /\ ReplacementBeforeOnLine
    /\ RemovedEnd = TheRange.start
    /\ TheChange.text # <<>>
    /\ NetLength < 0
    /\ TheRange.end.line > TheRange.start.line
    /\ TheRange.end.character > 0
    /\ TheResult = ShiftedOnLine

\* The start of the change lies strictly inside the range.
StartsStrictlyInside ==
    /\ isBefore(TheRange.start, RemovedStart)
    /\ isBefore(RemovedStart, TheRange.end)

\* The length of the text after its last line break.
RECURSIVE TrailingLength(_)
TrailingLength(text) ==
    IF text = <<>> \/ text[Len(text)] = "\n"
        THEN 0
        ELSE 1 + TrailingLength(SubSeq(text, 1, Len(text) - 1))

\* Where the text of the change ends, typed from the start of the change.
TypedEnd ==
    IF LineBreaks(TheChange.text) = 0
        THEN Position(RemovedStart.line, RemovedStart.character + Len(TheChange.text))
        ELSE Position(RemovedStart.line + LineBreaks(TheChange.text),
                      TrailingLength(TheChange.text))

\* C26: a change that starts strictly inside the range leaves a range with
\* the start it had. If the removed range ends at or after the end of the
\* range, the range ends where the inserted text ends; if it ends before,
\* on the line the range ends on, the range ends on the line the inserted
\* text ends on, the characters that followed the removed range after it;
\* otherwise the end of the range keeps its character and its line moves by
\* the lines inserted less the lines removed.
C26_EditFromInsideKeepsStart ==
    (AppliedOnce /\ StartsStrictlyInside) =>
        /\ TheResult # Null
        /\ TheResult.start = TheRange.start
        /\ TheResult.end =
              IF AtOrAfter(RemovedEnd, TheRange.end)
                  THEN TypedEnd
              ELSE IF RemovedEnd.line = TheRange.end.line
                  THEN Position(TypedEnd.line,
                                TypedEnd.character
                                  + TheRange.end.character - RemovedEnd.character)
              ELSE Position(TheRange.end.line + LineBreaks(TheChange.text)
                              - (RemovedEnd.line - RemovedStart.line),
                            TheRange.end.character)

\* C26 witness: the change started inside the range, removed a line break
\* and ended on a line before the line the range ends on, and inserted
\* text without a line break; the end of the range is one line up.
C26_Witness ==
    /\ AppliedOnce /\ StartsStrictlyInside
    /\ RemovedEnd.line > RemovedStart.line
    /\ RemovedEnd.line < TheRange.end.line
    /\ TheChange.text # <<>>
    /\ LineBreaks(TheChange.text) = 0
    /\ TheResult # Null
    /\ TheResult.start = TheRange.start
    /\ TheResult.end = Position(TheRange.end.line - (RemovedEnd.line - RemovedStart.line),
                                TheRange.end.character)

\* Where the character at position p, at or after the end of the removed
\* range, lies in the document after the replacement: after the inserted
\* text on its last line if p was on the line the removed range ends on,
\* else on its own line moved by the lines inserted less the lines removed.
AfterReplacement(p) ==
    IF p.line = RemovedEnd.line
        THEN Position(TypedEnd.line, TypedEnd.character + p.character - RemovedEnd.character)
        ELSE Position(p.line + TypedEnd.line - RemovedEnd.line, p.character)

\* C27: a change whose removed range ends at or before the start of the
\* range, and before its end, takes the start and the end of the range to
\* the positions their characters have in the document after the
\* replacement, also when the inserted text has a line break and starts at
\* a column other than 0 on the line the range starts on.
C27_EditBeforeFollowsTheText ==
    (AppliedOnce /\ AtOrBefore(RemovedEnd, TheRange.start)
                 /\ isBefore(RemovedEnd, TheRange.end)) =>
        /\ TheResult # Null
        /\ TheResult.start = AfterReplacement(TheRange.start)
        /\ TheResult.end = AfterReplacement(TheRange.end)

\* C28: in every reachable state the applied version of each pass is at
\* least the version last received for that pass.
C28_AppliedAtLeastReceived ==
    /\ currentSyntacticVersion >= lastReceivedSyntacticVersion
    /\ currentSemanticVersion >= lastReceivedSemanticVersion

\* C28 witness: results were received for both passes at a version above
\* the first, and edits applied since have taken the syntactic pass beyond
\* the version received while the semantic pass is at the version received.
C28_Witness ==
    /\ lastReceivedSyntacticVersion > 0
    /\ lastReceivedSemanticVersion > 0
    /\ currentSyntacticVersion > lastReceivedSyntacticVersion
    /\ currentSemanticVersion = lastReceivedSemanticVersion

\* The changes of the edits, in the order applyEdits goes through them.
RECURSIVE ChangesOf(_)
ChangesOf(edits) ==
    IF edits = <<>> THEN <<>> ELSE Head(edits).changes \o ChangesOf(Tail(edits))

\* One range through the first n of the changes; Null once it is dropped.
RECURSIVE Image(_, _, _)
Image(range, changes, n) ==
    IF n = 0
        THEN range
        ELSE LET before == Image(range, changes, n - 1)
                 change == changes[n]
             IN IF before = Null
                    THEN Null
                    ELSE fixRange(before, change.range.start, change.range.end,
                                  textToRange(change.text, change.range.start).end)

\* The change removes the whole of the range: the case of full consumption.
ConsumedBy(range, change) ==
    /\ AtOrBefore(change.range.start, range.start)
    /\ AtOrAfter(change.range.end, range.end)
    /\ isBefore(change.range.start, range.end)

\* after is what applyEdits may leave of before, the pass at version: the
\* images of the ranges of before through the changes newer than the
\* version, in the order of before, those dropped left out; and a range is
\* dropped at a change that consumes it as it then stands.
NeverCreatedNorReordered(before, after, version) ==
    LET changes == ChangesOf(EditsAfter(version))
        images == [k \in 1 .. Len(before) |-> Image(before[k], changes, Len(changes))]
        Survives(range) == range # Null
    IN /\ Len(after) <= Len(before)
       /\ after = SelectSeq(images, Survives)
       /\ \A k \in 1 .. Len(before) :
              images[k] = Null =>
                  \E n \in 1 .. Len(changes) :
                      /\ Image(before[k], changes, n - 1) # Null
                      /\ Image(before[k], changes, n) = Null
                      /\ ConsumedBy(Image(before[k], changes, n - 1), changes[n])

\* C29: in every state applyEdits creates no range and reorders none: for
\* every token kind of each pass and for the inactive ranges it leaves the
\* ranges that survive the changes, in the order they had, no more of them
\* than there were, and it drops a range only at a change that consumes it.
C29_NeverCreatesNorReorders ==
    LET after == applyEdits(Entry)
    IN /\ \A i \in TokenKinds :
             /\ NeverCreatedNorReordered(syntacticRanges[i], after.syntacticRanges[i],
                                         currentSyntacticVersion)
             /\ NeverCreatedNorReordered(semanticRanges[i], after.semanticRanges[i],
                                         currentSemanticVersion)
       /\ NeverCreatedNorReordered(inactiveRanges, after.inactiveRanges,
                                   currentSemanticVersion)

\* C29 witness: of two syntactic ranges of a kind applyEdits drops the
\* first and leaves the second, moved.
C29_Witness ==
    \E i \in TokenKinds :
        LET after == applyEdits(Entry).syntacticRanges[i]
            changes == ChangesOf(EditsAfter(currentSyntacticVersion))
        IN /\ Len(syntacticRanges[i]) = 2
           /\ Len(after) = 1
           /\ Image(syntacticRanges[i][1], changes, Len(changes)) = Null
           /\ after[1] = Image(syntacticRanges[i][2], changes, Len(changes))
           /\ after[1] # syntacticRanges[i][2]

====
